---- MODULE Spec2Model ----
(***************************************************************************)
(* roamie: the markdown-to-markup renderer of the results page             *)
(* (src/results.js, formatItinerary) and the POST /generate-itinerary      *)
(* handler of the backend (src/server.js), and the results page around     *)
(* the renderer (src/results.js, generateItinerary).                       *)
(*                                                                         *)
(* A JavaScript string is modelled as a sequence of one-character strings, *)
(* so every tag the renderer emits is spelled out character by character   *)
(* and input characters can be told apart from emitted ones.               *)
(***************************************************************************)
EXTENDS Naturals, Sequences, FiniteSets

VARIABLES
    text,           \* argument of formatItinerary
    lines,          \* result of text.split('\n')
    fragments,      \* result of .map(line => ...)
    markup,         \* result of .join(''): the value returned
    pc,             \* "ready" before the call, "done" after it, "idle" when unused
    body,           \* req.body of the request the server handles
    spc,            \* position of the route handler
    responses,      \* what was sent on res, in order: status and JSON body
    providerCalls,  \* number of calls of anthropic.messages.create
    ppc,            \* position of the results page script
    travelData,     \* sessionStorage item 'travelData': "set", "removed" or "none"
    reply,          \* data.itinerary of the server's answer: a string or undefined
    display,        \* style.display of the four regions of the page
    resultHTML,     \* resultDiv.innerHTML
    location        \* window.location.href

vars ==
    <<text, lines, fragments, markup, pc, body, spc, responses, providerCalls,
      ppc, travelData, reply, display, resultHTML, location>>

renderVars == <<text, lines, fragments, markup, pc>>
serverVars == <<body, spc, responses, providerCalls>>
pageVars == <<ppc, travelData, reply, display, resultHTML, location>>

-----------------------------------------------------------------------------
(* Bounds of the input space *)

\* an input text is the concatenation of at most MaxPieces pieces
MaxPieces == 4

\* the pieces inputs are built from: markers, whitespace, a carriage return
\* (white space for \s and trim(), a line terminator for the regex dot), the
\* line break, a letter, and the two halves of a list container tag
Pieces ==
    { <<"#">>, <<"#", "#">>, <<"#", " ">>, <<"*">>, <<"*", "*">>, <<"-">>,
      <<"-", " ">>, <<" ">>, <<"\r">>, <<"\n">>, <<"a">>, <<"<", "u">>,
      <<"l", ">">> }

RECURSIVE Concat(_)
Concat(ps) == IF ps = <<>> THEN <<>> ELSE Head(ps) \o Concat(Tail(ps))

Inputs == { Concat(ps) : ps \in UNION { [1..n -> Pieces] : n \in 0..MaxPieces } }

-----------------------------------------------------------------------------
(* String primitives of the JavaScript runtime *)

\* the characters \s and trim() treat as white space (those of the alphabet)
WhiteSpace == {" ", "\r", "\n"}

\* the characters the regex dot does not match
LineTerminators == {"\r", "\n"}

startsWith(s, p) == Len(s) >= Len(p) /\ SubSeq(s, 1, Len(p)) = p

endsWith(s, p) == Len(s) >= Len(p) /\ SubSeq(s, Len(s) - Len(p) + 1, Len(s)) = p

trim(s) ==
    LET keep == { i \in 1..Len(s) : s[i] \notin WhiteSpace }
    IN  IF keep = {} THEN <<>>
        ELSE LET first == CHOOSE i \in keep : \A j \in keep : i <= j
                 last  == CHOOSE i \in keep : \A j \in keep : i >= j
             IN  SubSeq(s, first, last)

\* s with its leading white space removed: what a greedy \s* consumes
RECURSIVE SkipSpace(_)
SkipSpace(s) ==
    IF s # <<>> /\ Head(s) \in WhiteSpace THEN SkipSpace(Tail(s)) ELSE s

\* text.split('\n')
RECURSIVE split(_)
split(s) ==
    LET nl == { i \in 1..Len(s) : s[i] = "\n" }
    IN  IF nl = {} THEN <<s>>
        ELSE LET i == CHOOSE i \in nl : \A j \in nl : i <= j
             IN  <<SubSeq(s, 1, i - 1)>> \o split(SubSeq(s, i + 1, Len(s)))

\* .join('') in the reverse order
RECURSIVE joinReversed(_)
joinReversed(fs) ==
    IF fs = <<>> THEN <<>> ELSE joinReversed(Tail(fs)) \o Head(fs)

\* .join('')
RECURSIVE join(_)
join(fs) == IF fs = <<>> THEN <<>> ELSE Head(fs) \o join(Tail(fs))

-----------------------------------------------------------------------------
(* The tags the renderer emits *)

Hashes(n) == [i \in 1..n |-> "#"]
HeadingPrefix(n) == Hashes(n) \o <<" ">>
Bold == <<"*", "*">>
ListPrefix == <<"-", " ">>
ThreeHyphens == <<"-", "-", "-">>

HOpen(n) == <<"<", "h", IF n = 1 THEN "1" ELSE IF n = 2 THEN "2" ELSE "3", ">">>
HClose(n) == <<"<", "/", "h", IF n = 1 THEN "1" ELSE IF n = 2 THEN "2" ELSE "3", ">">>
LiOpen == <<"<", "l", "i", ">">>
LiClose == <<"<", "/", "l", "i", ">">>
POpen == <<"<", "p", ">">>
PClose == <<"<", "/", "p", ">">>
StrongOpen == <<"<", "s", "t", "r", "o", "n", "g", ">">>
StrongClose == <<"<", "/", "s", "t", "r", "o", "n", "g", ">">>
HR == <<"<", "h", "r", " ", "s", "t", "y", "l", "e", "=", "\"", "m", "a", "r",
        "g", "i", "n", ":", " ", "2", "r", "e", "m", " ", "0", ";", " ", "b",
        "o", "r", "d", "e", "r", ":", " ", "n", "o", "n", "e", ";", " ", "b",
        "o", "r", "d", "e", "r", "-", "t", "o", "p", ":", " ", "2", "p", "x",
        " ", "s", "o", "l", "i", "d", " ", "#", "e", "0", "e", "0", "e", "0",
        ";", "\"", ">">>

-----------------------------------------------------------------------------
(* The regular-expression replacements of the map callback *)

\* line.replace(/#{n}\s*/, ''): the first run only (no g flag)
RECURSIVE replaceHashRunOnce(_, _)
replaceHashRunOnce(s, n) ==
    IF s = <<>> THEN <<>>
    ELSE IF startsWith(s, Hashes(n))
         THEN SkipSpace(SubSeq(s, n + 1, Len(s)))
         ELSE <<Head(s)>> \o replaceHashRunOnce(Tail(s), n)

\* line.replace(/###\s*/g, ''), /##\s*/g, /#\s*/g for n = 3, 2, 1: scanning
\* left to right, each run of n hash marks is dropped together with all the
\* white space after it
RECURSIVE replaceHashRun(_, _)
replaceHashRun(s, n) ==
    IF s = <<>> THEN <<>>
    ELSE IF startsWith(s, Hashes(n))
         THEN replaceHashRun(SkipSpace(SubSeq(s, n + 1, Len(s))), n)
         ELSE <<Head(s)>> \o replaceHashRun(Tail(s), n)

\* line.replace(/\*\*/, ''): the first delimiter only (no g flag)
RECURSIVE replaceBoldDelimiterOnce(_)
replaceBoldDelimiterOnce(s) ==
    IF s = <<>> THEN <<>>
    ELSE IF startsWith(s, Bold) THEN SubSeq(s, 3, Len(s))
         ELSE <<Head(s)>> \o replaceBoldDelimiterOnce(Tail(s))

\* line.replace(/\*\*/g, '')
RECURSIVE replaceBoldDelimiter(_)
replaceBoldDelimiter(s) ==
    IF s = <<>> THEN <<>>
    ELSE IF startsWith(s, Bold) THEN replaceBoldDelimiter(SubSeq(s, 3, Len(s)))
         ELSE <<Head(s)>> \o replaceBoldDelimiter(Tail(s))

\* line.replace(/^-/, ''): the hyphen without the white space after it
replaceListMarkerOnly(s) ==
    IF s # <<>> /\ Head(s) = "-" THEN Tail(s) ELSE s

\* line.replace(/^-\s*/, '')
replaceListMarker(s) ==
    IF s # <<>> /\ Head(s) = "-" THEN SkipSpace(Tail(s)) ELSE s

\* the positions j >= 3 of s at which a '**' starts
BoldAt(s) == { j \in 3..(Len(s) - 1) : s[j] = "*" /\ s[j + 1] = "*" }

\* /\*\*(.*?)\*\*/ tried at the start of s, which starts with '**': the lazy
\* (.*?) stops at the first following '**' and cannot step over a character
\* the dot does not match; 0 when the attempt fails, else the position of
\* the closing '**'
MatchBoldSpan(s) ==
    IF BoldAt(s) = {} THEN 0
    ELSE LET j == CHOOSE j \in BoldAt(s) : \A k \in BoldAt(s) : j <= k
         IN  IF \A k \in 3..(j - 1) : s[k] \notin LineTerminators THEN j ELSE 0

\* line.replace(/\*\*(.*?)\*\*/g, '<strong>$1</strong>')
RECURSIVE replaceBoldSpans(_)
replaceBoldSpans(s) ==
    IF s = <<>> THEN <<>>
    ELSE IF startsWith(s, Bold) /\ MatchBoldSpan(s) # 0
         THEN LET j == MatchBoldSpan(s)
              IN  StrongOpen \o SubSeq(s, 3, j - 1) \o StrongClose
                    \o replaceBoldSpans(SubSeq(s, j + 2, Len(s)))
         ELSE <<Head(s)>> \o replaceBoldSpans(Tail(s))

-----------------------------------------------------------------------------
(* The conditions of the map callback *)

\* the whole-line bold test taken on the trimmed line
isWholeLineBoldTrimmed(line) ==
    startsWith(trim(line), Bold) /\ endsWith(trim(line), Bold)

\* line.startsWith('**') && line.endsWith('**')
isWholeLineBold(line) == startsWith(line, Bold) /\ endsWith(line, Bold)

\* line === '---', without trim()
isRuleUntrimmed(line) == line = ThreeHyphens

\* line.trim() === '---'
isRule(line) == trim(line) = ThreeHyphens

\* line, without trim(): truthy when the line has any character
isNonBlankUntrimmed(line) == line # <<>>

\* line.trim(): truthy when anything is left after trimming
isNonBlank(line) == trim(line) # <<>>

\* the callback with the paragraph test placed before the '---' test
mapCallbackParagraphFirst(line) ==
    IF startsWith(line, HeadingPrefix(3))
    THEN HOpen(3) \o replaceHashRun(line, 3) \o HClose(3)
    ELSE IF startsWith(line, HeadingPrefix(2))
    THEN HOpen(2) \o replaceHashRun(line, 2) \o HClose(2)
    ELSE IF startsWith(line, HeadingPrefix(1))
    THEN HOpen(1) \o replaceHashRun(line, 1) \o HClose(1)
    ELSE IF isWholeLineBold(line)
    THEN HOpen(3) \o replaceBoldDelimiter(line) \o HClose(3)
    ELSE IF startsWith(line, ListPrefix)
    THEN LiOpen \o replaceListMarker(line) \o LiClose
    ELSE IF isNonBlank(line)
    THEN POpen \o replaceBoldSpans(line) \o PClose
    ELSE IF isRule(line)
    THEN HR
    ELSE <<>>

\* line => { if ... else if ... return '' }: the first condition that holds
\* decides the fragment
mapCallback(line) ==
    IF startsWith(line, HeadingPrefix(3))
    THEN HOpen(3) \o replaceHashRun(line, 3) \o HClose(3)
    ELSE IF startsWith(line, HeadingPrefix(2))
    THEN HOpen(2) \o replaceHashRun(line, 2) \o HClose(2)
    ELSE IF startsWith(line, HeadingPrefix(1))
    THEN HOpen(1) \o replaceHashRun(line, 1) \o HClose(1)
    ELSE IF isWholeLineBold(line)
    THEN HOpen(3) \o replaceBoldDelimiter(line) \o HClose(3)
    ELSE IF startsWith(line, ListPrefix)
    THEN LiOpen \o replaceListMarker(line) \o LiClose
    ELSE IF isRule(line)
    THEN HR
    ELSE IF isNonBlank(line)
    THEN POpen \o replaceBoldSpans(line) \o PClose
    ELSE <<>>

\* text.split('\n').map(...).join('')
formatItinerary(s) ==
    LET ls == split(s) IN join([k \in 1..Len(ls) |-> mapCallback(ls[k])])

-----------------------------------------------------------------------------
(* The renderer as a state machine: one call of formatItinerary *)

IdleBody ==
    [origin |-> "set", destination |-> "set", start |-> "set", end |-> "set",
     numPeople |-> "set", activity |-> "array", food |-> "array"]

\* the regions as the page shows them while the itinerary is generated: the
\* loading message visible, the other three hidden
InitialDisplay ==
    [loading |-> "block", error |-> "none", result |-> "none", back |-> "none"]

\* the results page is not open
PageIdle ==
    /\ ppc = "idle"
    /\ travelData = "none"
    /\ reply = [isString |-> FALSE, value |-> <<>>]
    /\ display = InitialDisplay
    /\ resultHTML = <<>>
    /\ location = "index.html"

RenderInit ==
    /\ text \in Inputs
    /\ lines = <<>>
    /\ fragments = <<>>
    /\ markup = <<>>
    /\ pc = "ready"
    /\ body = IdleBody
    /\ spc = "idle"
    /\ responses = <<>>
    /\ providerCalls = 0
    /\ PageIdle

\* formatItinerary(text): split, map, join, return
Render ==
    /\ pc = "ready"
    /\ lines' = split(text)
    /\ fragments' = [k \in 1..Len(split(text)) |-> mapCallback(split(text)[k])]
    /\ markup' = join([k \in 1..Len(split(text)) |-> mapCallback(split(text)[k])])
    /\ pc' = "done"
    /\ UNCHANGED <<text, serverVars, pageVars>>

RenderNext == Render

Spec == RenderInit /\ [][RenderNext]_vars

-----------------------------------------------------------------------------
(* The POST /generate-itinerary handler (src/server.js) *)

\* what a field of req.body can be: absent, an empty (falsy) value, a value
StringField == {"undefined", "empty", "set"}
NumberField == {"undefined", "set"}
ArrayField == {"undefined", "array"}

Bodies ==
    [origin : StringField, destination : StringField, start : StringField,
     end : StringField, numPeople : NumberField, activity : ArrayField,
     food : ArrayField]

\* !userData.f
Falsy(v) == v \in {"undefined", "empty"}

\* the Step 2 test: only these four fields are looked at
MissingRequired(b) ==
    Falsy(b.origin) \/ Falsy(b.destination) \/ Falsy(b.start) \/ Falsy(b.end)

\* buildItineraryPrompt(userData) throws a TypeError when activity.join or
\* food.join is taken of undefined; every other field is only interpolated
buildItineraryPromptThrows(b) == b.activity = "undefined" \/ b.food = "undefined"

\* res.status(code).json(...): for 400 the error text, for 200 the payload,
\* for 500 the error.message put in details
Answer(code, what) == [status |-> code, what |-> what]

ServerInit ==
    /\ body \in Bodies
    /\ spc = "received"
    /\ responses = <<>>
    /\ providerCalls = 0
    /\ text = <<>>
    /\ lines = <<>>
    /\ fragments = <<>>
    /\ markup = <<>>
    /\ pc = "idle"
    /\ PageIdle

\* the handler up to its await: Step 1 to Step 4, with the 400 answer of
\* Step 2 and the catch block for a throw of buildItineraryPrompt
HandleRequest ==
    /\ spc = "received"
    /\ IF MissingRequired(body)
       THEN /\ responses' = Append(responses, Answer(400, "Missing required fields"))
            /\ spc' = "done"
            /\ UNCHANGED providerCalls
       ELSE IF buildItineraryPromptThrows(body)
       THEN /\ responses' = Append(responses, Answer(500, "TypeError"))
            /\ spc' = "done"
            /\ UNCHANGED providerCalls
       ELSE /\ providerCalls' = providerCalls + 1
            /\ spc' = "awaiting"
            /\ UNCHANGED responses
    /\ UNCHANGED <<body, renderVars, pageVars>>

\* the provider call resolves: Step 5 reads message.content[0].text, which
\* throws when content is empty, and Step 6 answers 200
ProviderResolves ==
    /\ spc = "awaiting"
    /\ \E content \in {"text", "none"} :
          responses' = Append(responses, IF content = "text"
                                             THEN Answer(200, "itinerary")
                                             ELSE Answer(500, "TypeError"))
    /\ spc' = "done"
    /\ UNCHANGED <<body, providerCalls, renderVars, pageVars>>

\* the provider call rejects: the catch block answers 500
ProviderRejects ==
    /\ spc = "awaiting"
    /\ responses' = Append(responses, Answer(500, "provider error"))
    /\ spc' = "done"
    /\ UNCHANGED <<body, providerCalls, renderVars, pageVars>>

ServerNext == HandleRequest \/ ProviderResolves \/ ProviderRejects

ServerSpec == ServerInit /\ [][ServerNext]_vars

-----------------------------------------------------------------------------
(* The results page (src/results.js): the top-level script and            *)
(* generateItinerary                                                      *)

\* data.itinerary when the answer carries no string there
Undefined == [isString |-> FALSE, value |-> <<>>]

\* an itinerary text on the page is the concatenation of at most
\* MaxReplyPieces pieces
MaxReplyPieces == 1

Replies ==
    { [isString |-> TRUE, value |-> Concat(ps)] :
        ps \in UNION { [1..n -> Pieces] : n \in 0..MaxReplyPieces } }
        \cup {Undefined}

PageInit ==
    /\ ppc = "load"
    /\ travelData \in {"set", "none"}
    /\ reply \in Replies
    /\ display = InitialDisplay
    /\ resultHTML = <<>>
    /\ location = "results.html"
    /\ text = <<>>
    /\ lines = <<>>
    /\ fragments = <<>>
    /\ markup = <<>>
    /\ pc = "idle"
    /\ body = IdleBody
    /\ spc = "idle"
    /\ responses = <<>>
    /\ providerCalls = 0

\* the catch block: hide the loading message, show the error message and
\* the back button; the result region is left as it is
CatchBlock(d) == [d EXCEPT !.loading = "none", !.error = "block", !.back = "block"]

\* the top-level script: without stored data go back to the form, else call
\* generateItinerary, which runs up to its await fetch(...)
PageLoad ==
    /\ ppc = "load"
    /\ IF travelData = "none"
       THEN /\ location' = "index.html"
            /\ ppc' = "redirected"
       ELSE /\ ppc' = "fetching"
            /\ UNCHANGED location
    /\ UNCHANGED <<travelData, reply, display, resultHTML, renderVars, serverVars>>

\* fetch rejects (network failure): the catch block runs
FetchRejects ==
    /\ ppc = "fetching"
    /\ display' = CatchBlock(display)
    /\ ppc' = "networkFailed"
    /\ UNCHANGED <<travelData, reply, resultHTML, location, renderVars, serverVars>>

\* fetch resolves: with !response.ok the throw of Step 5 reaches the catch
\* block, else the function goes on to its await response.json()
FetchResolves ==
    /\ ppc = "fetching"
    /\ \E ok \in BOOLEAN :
          IF ok
          THEN /\ ppc' = "parsing"
               /\ UNCHANGED display
          ELSE /\ display' = CatchBlock(display)
               /\ ppc' = "notOk"
    /\ UNCHANGED <<travelData, reply, resultHTML, location, renderVars, serverVars>>

\* response.json() rejects (the body is no JSON): the catch block runs
JsonRejects ==
    /\ ppc = "parsing"
    /\ display' = CatchBlock(display)
    /\ ppc' = "unparsed"
    /\ UNCHANGED <<travelData, reply, resultHTML, location, renderVars, serverVars>>

\* response.json() resolves: Step 7 and Step 8 run without a break.
\* formatItinerary throws a TypeError on a data.itinerary that is no string,
\* after the loading message was hidden; the sessionStorage access of Step 8
\* can throw a SecurityError, after the result and the back button were
\* shown.  Either throw reaches the catch block.
JsonResolves ==
    /\ ppc = "parsing"
    /\ IF ~reply.isString
       THEN /\ display' = CatchBlock([display EXCEPT !.loading = "none"])
            /\ ppc' = "renderThrew"
            /\ UNCHANGED <<resultHTML, travelData>>
       ELSE /\ resultHTML' = formatItinerary(reply.value)
            /\ \E storageThrows \in BOOLEAN :
                  IF storageThrows
                  THEN /\ display' = CatchBlock([display EXCEPT !.loading = "none",
                                                               !.result = "block",
                                                               !.back = "block"])
                       /\ ppc' = "cleanupThrew"
                       /\ UNCHANGED travelData
                  ELSE /\ display' = [display EXCEPT !.loading = "none",
                                                     !.result = "block",
                                                     !.back = "block"]
                       /\ ppc' = "shown"
                       /\ travelData' = "removed"
    /\ UNCHANGED <<reply, location, renderVars, serverVars>>

PageNext == PageLoad \/ FetchRejects \/ FetchResolves \/ JsonRejects \/ JsonResolves

PageSpec == PageInit /\ [][PageNext]_vars

-----------------------------------------------------------------------------
(* Vocabulary of the properties *)

Done == pc = "done"

Contains(s, p) ==
    \E i \in 1..(Len(s) + 1 - Len(p)) : SubSeq(s, i, i + Len(p) - 1) = p

\* frag is open, some content, close
Wrapped(frag, open, close) ==
    /\ Len(frag) >= Len(open) + Len(close)
    /\ startsWith(frag, open)
    /\ endsWith(frag, close)

Content(frag, open, close) == SubSeq(frag, Len(open) + 1, Len(frag) - Len(close))

\* the characters of s at the positions in K, in order
RECURSIVE PickFrom(_, _, _)
PickFrom(s, K, i) ==
    IF i > Len(s) THEN <<>>
    ELSE (IF i \in K THEN <<s[i]>> ELSE <<>>) \o PickFrom(s, K, i + 1)

Pick(s, K) == PickFrom(s, K, 1)

\* p occurs in s as a subsequence (in order, not necessarily adjacent)
RECURSIVE IsSubsequence(_, _)
IsSubsequence(p, s) ==
    IF p = <<>> THEN TRUE
    ELSE IF s = <<>> THEN FALSE
    ELSE IF Head(p) = Head(s) THEN IsSubsequence(Tail(p), Tail(s))
    ELSE IsSubsequence(p, Tail(s))

\* first and last position of the maximal block of characters of C around i
BlockStart(s, C, i) ==
    CHOOSE b \in 1..i : (\A j \in b..i : s[j] \in C) /\ (b = 1 \/ s[b - 1] \notin C)

BlockEnd(s, C, i) ==
    CHOOSE e \in i..Len(s) :
        (\A j \in i..e : s[j] \in C) /\ (e = Len(s) \/ s[e + 1] \notin C)

\* position i lies in one of the consecutive groups of n characters ch that a
\* maximal block of ch divides into from its left end
InGroupOf(s, ch, n, i) ==
    /\ s[i] = ch
    /\ LET b == BlockStart(s, {ch}, i)
           e == BlockEnd(s, {ch}, i)
       IN  i - b < n * ((e + 1 - b) \div n)

\* position i is white space that follows such a group, directly or through
\* white space only
SpaceAfterGroup(s, ch, n, i) ==
    /\ s[i] \in WhiteSpace
    /\ LET b == BlockStart(s, WhiteSpace, i)
       IN  b > 1 /\ InGroupOf(s, ch, n, b - 1)

\* the line with every run of n hash marks and the white space after it removed
WithoutHashRuns(line, n) ==
    Pick(line, { i \in 1..Len(line) :
                    ~InGroupOf(line, "#", n, i) /\ ~SpaceAfterGroup(line, "#", n, i) })

\* the line with every '**' removed
WithoutBoldDelimiters(line) ==
    Pick(line, { i \in 1..Len(line) : ~InGroupOf(line, "*", 2, i) })

\* the line with one leading hyphen and the white space after it removed
WithoutListMarker(line) ==
    LET rest == { i \in 2..Len(line) : line[i] \notin WhiteSpace }
    IN  IF rest = {} THEN <<>>
        ELSE SubSeq(line, CHOOSE i \in rest : \A j \in rest : i <= j, Len(line))

\* the conditions of the eight rules, in their fixed order
RuleHolds(line, r) ==
    CASE r = 1 -> startsWith(line, <<"#", "#", "#", " ">>)
      [] r = 2 -> startsWith(line, <<"#", "#", " ">>)
      [] r = 3 -> startsWith(line, <<"#", " ">>)
      [] r = 4 -> startsWith(line, Bold) /\ endsWith(line, Bold)
      [] r = 5 -> startsWith(line, <<"-", " ">>)
      [] r = 6 -> trim(line) = <<"-", "-", "-">>
      [] r = 7 -> trim(line) # <<>>
      [] r = 8 -> TRUE

FirstRule(line) ==
    CHOOSE r \in 1..8 : RuleHolds(line, r) /\ \A q \in 1..(r - 1) : ~RuleHolds(line, q)

\* the fragment has the form rule r gives
FragmentOfRule(frag, r) ==
    CASE r = 1 -> Wrapped(frag, HOpen(3), HClose(3))
      [] r = 2 -> Wrapped(frag, HOpen(2), HClose(2))
      [] r = 3 -> Wrapped(frag, HOpen(1), HClose(1))
      [] r = 4 -> Wrapped(frag, HOpen(3), HClose(3))
      [] r = 5 -> Wrapped(frag, LiOpen, LiClose)
      [] r = 6 -> frag = HR
      [] r = 7 -> Wrapped(frag, POpen, PClose)
      [] r = 8 -> frag = <<>>

LineBreaks(s) == { i \in 1..Len(s) : s[i] = "\n" }

UL == <<"<", "u", "l", ">">>

-----------------------------------------------------------------------------
(* C1 *)

\* C1: formatItinerary(text) is the concatenation, without separator and in
\* input order, of the per-line transform of each line of text split on
\* '\n': there are as many fragments as lines, fragment k is the rendering
\* of line k alone, and for every line break of the text the markup is the
\* markup of the part before it followed by the markup of the part after it.
C1_LineByLineConcatenation ==
    Done =>
        /\ Len(lines) = Cardinality(LineBreaks(text)) + 1
        /\ Len(fragments) = Len(lines)
        /\ \A k \in 1..Len(lines) : fragments[k] = formatItinerary(lines[k])
        /\ startsWith(markup, fragments[1])
        /\ endsWith(markup, fragments[Len(fragments)])
        /\ \A i \in LineBreaks(text) :
              markup = formatItinerary(SubSeq(text, 1, i - 1))
                         \o formatItinerary(SubSeq(text, i + 1, Len(text)))

\* three lines, the first two with different non-empty fragments
C1_Witness ==
    /\ Done
    /\ Len(lines) >= 3
    /\ fragments[1] # <<>>
    /\ fragments[2] # <<>>
    /\ fragments[1] # fragments[2]

-----------------------------------------------------------------------------
(* C2 *)

-----------------------------------------------------------------------------
(* C3 *)

\* C3: for a line starting with n hash marks and a space (n = 3, 2, 1) the
\* fragment is a level-n heading whose content is the line with every run of
\* n hash marks, anywhere in the line, removed together with the white space
\* after it; the content holds no run of n hash marks and does not begin
\* with white space.
C3_HeadingStripsEveryHashRun ==
    Done => \A k \in 1..Len(lines) : \A n \in 1..3 :
        startsWith(lines[k], HeadingPrefix(n)) =>
            /\ Wrapped(fragments[k], HOpen(n), HClose(n))
            /\ LET c == Content(fragments[k], HOpen(n), HClose(n))
               IN  /\ c = WithoutHashRuns(lines[k], n)
                   /\ ~Contains(c, Hashes(n))
                   /\ c = <<>> \/ c[1] \notin WhiteSpace

\* a heading line with a second run of hash marks after some text
C3_Witness ==
    /\ Done
    /\ \E k \in 1..Len(lines) : \E n \in 2..3 :
          /\ startsWith(lines[k], HeadingPrefix(n))
          /\ Contains(SubSeq(lines[k], n + 2, Len(lines[k])), <<"a">> \o Hashes(n))
          /\ Wrapped(fragments[k], HOpen(n), HClose(n))

-----------------------------------------------------------------------------
(* C4 *)

-----------------------------------------------------------------------------
(* C5 *)

\* the trimmed line is wrapped in a bold delimiter pair
TrimmedBoldWrapped(line) ==
    /\ Len(trim(line)) >= 4
    /\ startsWith(trim(line), Bold)
    /\ endsWith(trim(line), Bold)

\* C5 as stated: a line whose trimmed text is wrapped in a bold delimiter
\* pair is rendered as a level-3 heading with the delimiters removed, also
\* when the raw line has white space around the bold-wrapped text.
C5_TrimmedBoldIsHeading ==
    Done => \A k \in 1..Len(lines) :
        TrimmedBoldWrapped(lines[k]) =>
            /\ Wrapped(fragments[k], HOpen(3), HClose(3))
            /\ ~Contains(Content(fragments[k], HOpen(3), HClose(3)), Bold)

\* C5 amended: a line whose trimmed text is wrapped in a bold delimiter pair
\* is rendered as a level-3 heading with the delimiters removed exactly when
\* the raw line itself starts and ends with '**'; with leading or trailing
\* white space around the bold-wrapped text it is rendered as a paragraph
\* that keeps the white space.
C5_RawBoldIsHeadingElseParagraph ==
    Done => \A k \in 1..Len(lines) :
        TrimmedBoldWrapped(lines[k]) =>
            IF lines[k] = trim(lines[k])
            THEN /\ Wrapped(fragments[k], HOpen(3), HClose(3))
                 /\ Content(fragments[k], HOpen(3), HClose(3))
                      = WithoutBoldDelimiters(lines[k])
            ELSE /\ Wrapped(fragments[k], POpen, PClose)
                 /\ ~startsWith(fragments[k], HOpen(3))
                 /\ LET c == Content(fragments[k], POpen, PClose)
                    IN  (c # <<>> /\ c[1] \in WhiteSpace)
                          \/ (c # <<>> /\ c[Len(c)] \in WhiteSpace)

\* bold-wrapped text with white space in front of it, rendered as a paragraph
C5_Witness ==
    /\ Done
    /\ \E k \in 1..Len(lines) :
          /\ TrimmedBoldWrapped(lines[k])
          /\ Contains(lines[k], <<"a">>)
          /\ lines[k] # trim(lines[k])
          /\ Wrapped(fragments[k], POpen, PClose)

-----------------------------------------------------------------------------
(* C6 *)

\* the line with each '**...**' pair replaced by <strong>...</strong>: a span
\* starts at the first '**' and ends at the nearest following '**', whatever
\* lies between; a '**' without a closing partner stays as it is
RECURSIVE WithStrongSpans(_)
WithStrongSpans(s) ==
    IF s = <<>> THEN <<>>
    ELSE IF startsWith(s, Bold) /\ BoldAt(s) # {}
         THEN LET j == CHOOSE j \in BoldAt(s) : \A k \in BoldAt(s) : j <= k
              IN  StrongOpen \o SubSeq(s, 3, j - 1) \o StrongClose
                    \o WithStrongSpans(SubSeq(s, j + 2, Len(s)))
         ELSE <<Head(s)>> \o WithStrongSpans(Tail(s))

\* C6: for a paragraph line (non-blank, matching no earlier rule) the
\* fragment is <p>X</p> with X the raw line in which each '**...**' pair, left
\* to right, non-overlapping, from the first '**' to the nearest following
\* '**', is replaced by <strong>...</strong>, and every other character is
\* kept as it is.
C6_ParagraphBoldSpans ==
    Done => \A k \in 1..Len(lines) :
        FirstRule(lines[k]) = 7 =>
            fragments[k] = POpen \o WithStrongSpans(lines[k]) \o PClose

-----------------------------------------------------------------------------
(* C7 *)

\* C7: a line yields the fixed <hr> fragment if and only if its trimmed text
\* is exactly '---'.
C7_RuleIffTrimsToThreeHyphens ==
    Done => \A k \in 1..Len(lines) :
        (fragments[k] = HR) <=> (trim(lines[k]) = <<"-", "-", "-">>)

\* '---' with white space around it, rendered as the rule
C7_Witness ==
    /\ Done
    /\ \E k \in 1..Len(lines) :
          /\ trim(lines[k]) = <<"-", "-", "-">>
          /\ lines[k] # <<"-", "-", "-">>
          /\ fragments[k] = HR

-----------------------------------------------------------------------------
(* C8 *)

\* every line starting with '- ' is a bare <li> fragment whose content is the
\* line without its leading hyphen and the white space after it
ListItemsAreBare ==
    \A k \in 1..Len(lines) :
        startsWith(lines[k], <<"-", " ">>) =>
            fragments[k] = LiOpen \o WithoutListMarker(lines[k]) \o LiClose

\* C8 as stated: list lines are bare <li> fragments, and no output, for any
\* input, contains a list container tag.
C8_NoListContainerInOutput ==
    Done => (ListItemsAreBare /\ ~Contains(markup, UL))

\* C8 amended: list lines are bare <li> fragments, and the renderer adds no
\* list container tag of its own: the output contains one only where its
\* characters already stand, in that order, in a single input line.
C8_NoListContainerAdded ==
    Done =>
        /\ ListItemsAreBare
        /\ Contains(markup, UL) =>
              \E k \in 1..Len(lines) : IsSubsequence(UL, lines[k])

\* a list item in an output that holds a container tag taken from the input
C8_Witness ==
    /\ Done
    /\ Contains(markup, UL)
    /\ \E k \in 1..Len(lines) :
          /\ startsWith(lines[k], <<"-", " ">>)
          /\ Wrapped(fragments[k], LiOpen, LiClose)

-----------------------------------------------------------------------------
(* C9 *)

\* C9: a line that is empty after trimming contributes the empty string and
\* every other line a non-empty fragment; the markup is empty if and only if
\* every line of the text is empty after trimming.
C9_BlankLinesOnlyGiveEmptyMarkup ==
    Done =>
        /\ \A k \in 1..Len(lines) :
              (fragments[k] = <<>>) <=> (trim(lines[k]) = <<>>)
        /\ (markup = <<>>) <=> (\A k \in 1..Len(lines) : trim(lines[k]) = <<>>)

\* a text of several lines, none of them empty strings only, with empty markup
C9_Witness ==
    /\ Done
    /\ markup = <<>>
    /\ Len(lines) >= 2
    /\ \E k \in 1..Len(lines) : lines[k] # <<>>

-----------------------------------------------------------------------------
(* C10 *)

\* a field the prompt builder reads is absent from the body
MissingAnyField(b) ==
    \E f \in {"origin", "destination", "start", "end", "numPeople", "activity",
              "food"} : b[f] = "undefined"

\* C10: a request whose body lacks any field the prompt builder reads is
\* answered with 400 'Missing required fields', without a call of the
\* provider and never with 500; every request gets exactly one response.
C10_MissingFieldIsRejected ==
    spc = "done" =>
        /\ Len(responses) = 1
        /\ MissingAnyField(body) =>
              /\ responses = <<Answer(400, "Missing required fields")>>
              /\ providerCalls = 0

-----------------------------------------------------------------------------
(* C11 *)

\* generateItinerary has finished, by whatever path
Finished ==
    ppc \in {"networkFailed", "notOk", "unparsed", "renderThrew", "cleanupThrew",
             "shown"}

\* C11: once generateItinerary has finished, by any path (success, non-OK
\* response, network failure, an exception at any step of the success path
\* such as rendering or storage cleanup), the loading message is hidden, the
\* back button is shown and exactly one of the result region and the error
\* region is visible; the stored travelData is removed only on the path that
\* shows the result.
C11_ExactlyOneRegionShown ==
    Finished =>
        /\ display.loading = "none"
        /\ display.back = "block"
        /\ (display.result = "block") # (display.error = "block")
        /\ travelData = "removed" =>
              (display.result = "block" /\ display.error = "none")

=============================================================================
